---- MODULE Spec2Model ----
(***************************************************************************)
(* The game of Pig of IS211_Assignment8.py: Die, Player, ComputerPlayer,   *)
(* PlayerFactory, Game, TimedGameProxy and the __main__ block.             *)
(*                                                                         *)
(* Text (a player type, a line typed by a human) is a sequence of          *)
(* one-character strings, so that str.lower() and str.strip() are modelled *)
(* by what they do to the characters.  The die (random.randint(1, 6)) is a *)
(* choice among its six faces, the wall clock (time.time()) is a number of *)
(* seconds that the environment advances between any two steps.            *)
(***************************************************************************)
EXTENDS Integers, Sequences, FiniteSets, TLC

VARIABLES
    pc,                    \* position of the program
    argv,                  \* <<player1 type, player2 type>> as given by the caller
    timed,                 \* args.timed: TimedGameProxy instead of Game
    kind,                  \* class of players[i]: "human" (Player) or "computer"
    score,                 \* players[i].score
    current_player_index,  \* Game.current_player_index
    turn_total,            \* local of play_turn
    roll,                  \* local of play_turn: the value the die showed
    decision,              \* local of play_turn
    line,                  \* the line input() returned, before strip().lower()
    now,                   \* time.time(), in seconds
    start_time,            \* TimedGameProxy.start_time
    loop_start,            \* time.time() when start() was called
    outcome,               \* how the last turn ended: "bust", "hold" or "none"
    turn_start_score,      \* score of the player at the moment play_turn was entered
    winner,                \* name printed by check_winner, or NoName
    verdict,               \* what declare_winner printed, or NoName
    turns                  \* number of turns begun, counted up to MaxTurns + 1

vars == <<pc, argv, timed, kind, score, current_player_index, turn_total, roll,
          decision, line, now, start_time, loop_start, outcome, turn_start_score,
          winner, verdict, turns>>

----------------------------------------------------------------------------
(* Bounds of the exploration.                                              *)

\* seconds by which one step of the clock advances time.time()
TickLen == 30
\* the clock is not advanced past MaxNow seconds
MaxNow == 90
\* a human player's further rolls are explored while turn_total is below this
MaxHumanTotal == 8
\* the short specifications follow a game for this many turns
MaxTurns == 3
\* start() is called again on a finished game while every score is below this
MaxAgainScore == 112
\* arguments on which ComputerPlayer.decide is tried alone
MaxTotalArg == 35
MaxScoreArg == 110

----------------------------------------------------------------------------
(* Program constants.                                                      *)

DieSides == 6
HoldAt == 25
Target == 100
WinScore == 100
TimeLimit == 60

----------------------------------------------------------------------------
(* Text.                                                                   *)

UpperCase == <<"A", "B", "C", "D", "E", "F", "G", "H", "I", "J", "K", "L", "M",
               "N", "O", "P", "Q", "R", "S", "T", "U", "V", "W", "X", "Y", "Z">>
LowerCase == <<"a", "b", "c", "d", "e", "f", "g", "h", "i", "j", "k", "l", "m",
               "n", "o", "p", "q", "r", "s", "t", "u", "v", "w", "x", "y", "z">>

\* the characters str.strip() removes
Whitespace == {" ", "\t", "\n", "\r"}

LowerChar(c) ==
    IF \E i \in 1..Len(UpperCase) : UpperCase[i] = c
    THEN LowerCase[CHOOSE i \in 1..Len(UpperCase) : UpperCase[i] = c]
    ELSE c

\* str.lower()
lower(s) == [i \in 1..Len(s) |-> LowerChar(s[i])]

RECURSIVE lstrip(_)
lstrip(s) == IF s # <<>> /\ Head(s) \in Whitespace THEN lstrip(Tail(s)) ELSE s

RECURSIVE rstrip(_)
rstrip(s) ==
    IF s # <<>> /\ s[Len(s)] \in Whitespace
    THEN rstrip(SubSeq(s, 1, Len(s) - 1))
    ELSE s

\* str.strip()
strip(s) == rstrip(lstrip(s))

Human == <<"h", "u", "m", "a", "n">>
Computer == <<"c", "o", "m", "p", "u", "t", "e", "r">>
Hold == <<"h">>
Roll == <<"r">>

\* player types a caller may give
TypeArgs ==
    { Human, Computer,
      <<"H", "u", "m", "a", "n">>,
      <<"C", "O", "M", "P", "U", "T", "E", "R">>,
      <<"r", "o", "b", "o", "t">>,
      <<"h", "u", "m", "a", "n", " ">>,
      <<>> }

\* lines a human may type at the prompt
Lines ==
    { <<"h">>, <<"H">>, <<" ", "h", " ">>, <<"\t", "H">>,
      <<"r">>, <<>>, <<"h", "o", "l", "d">>, <<"h", " ", "h">> }

NoName == "none"
PlayerName == <<"Player 1", "Player 2">>
Tie == "tie"

----------------------------------------------------------------------------
(* The functions of the program.                                           *)

Min(a, b) == IF a <= b THEN a ELSE b

\* Die.roll
Faces == 1..DieSides

\* a slip: > for >=
decide_strict(total, sc) == IF total > Min(HoldAt, Target - sc) THEN Hold ELSE Roll

\* ComputerPlayer.decide
decide(total, sc) == IF total >= Min(HoldAt, Target - sc) THEN Hold ELSE Roll

\* a slip: any other type makes a human player
create_player_default(player_type) ==
    IF lower(player_type) = Computer THEN "computer" ELSE "human"

\* PlayerFactory.create_player: the class of the player, or "error" (ValueError)
create_player(player_type) ==
    IF lower(player_type) = Computer THEN "computer"
    ELSE IF lower(player_type) = Human THEN "human"
    ELSE "error"

\* argparse, choices=["human", "computer"]
Choices == {Human, Computer}
parse_args(a) == a[1] \in Choices /\ a[2] \in Choices

\* a slip: the index is left as it is
switch_turn_stay(i) == i

\* Game.switch_turn
switch_turn(i) == 1 - i

\* a slip: the points are dropped
add_to_score_none(sc, points) == sc

\* a slip: = for +=
add_to_score_overwrite(sc, points) == points

\* Player.add_to_score
add_to_score(sc, points) == sc + points

\* a slip: the first player is named whoever has the points
check_winner_first(sc) ==
    IF sc[0] >= WinScore \/ sc[1] >= WinScore THEN PlayerName[1] ELSE NoName

\* a slip: > for >=
check_winner_strict(sc) ==
    IF sc[0] > WinScore THEN PlayerName[1]
    ELSE IF sc[1] > WinScore THEN PlayerName[2]
    ELSE NoName

\* Game.check_winner: the name it prints, NoName when it returns False
check_winner(sc) ==
    IF sc[0] >= WinScore THEN PlayerName[1]
    ELSE IF sc[1] >= WinScore THEN PlayerName[2]
    ELSE NoName

\* TimedGameProxy.start, the test of the deadline
time_is_up(t, st) == t - st >= TimeLimit

\* a slip: >= for >
declare_winner_ge(sc) ==
    IF sc[0] >= sc[1] THEN PlayerName[1]
    ELSE IF sc[1] >= sc[0] THEN PlayerName[2]
    ELSE Tie

\* TimedGameProxy.declare_winner: the name it prints, Tie for a tie
declare_winner(sc) ==
    IF sc[0] > sc[1] THEN PlayerName[1]
    ELSE IF sc[1] > sc[0] THEN PlayerName[2]
    ELSE Tie

\* a slip: the line is not stripped
read_decision_nostrip(l) == lower(l)

\* the reading of the human's line in play_turn
read_decision(l) == lower(strip(l))

\* the test that ends the turn by hold in play_turn
is_hold(d) == d = Hold

----------------------------------------------------------------------------
(* Initial states.                                                         *)

InitWith(entries, types, modes) ==
    /\ pc \in entries
    /\ argv \in types \X types
    /\ timed \in modes
    /\ kind = <<>>
    /\ score = <<>>
    /\ current_player_index = 0
    /\ turn_total = 0
    /\ roll = 0
    /\ decision = <<>>
    /\ line = <<>>
    /\ now = 0
    /\ start_time = 0
    /\ loop_start = 0
    /\ outcome = "none"
    /\ turn_start_score = 0
    /\ winner = NoName
    /\ verdict = NoName
    /\ turns = 0

\* the program is run (pc = "main") or a Game is constructed by a caller
Init == InitWith({"main", "call"}, TypeArgs, BOOLEAN)

----------------------------------------------------------------------------
(* Actions.                                                                *)

\* parser.parse_args() in __main__
ParseArgs ==
    /\ pc = "main"
    /\ pc' = IF parse_args(argv) THEN "parsed" ELSE "usage_error"
    /\ UNCHANGED <<argv, timed, kind, score, current_player_index, turn_total, roll,
                   decision, line, now, start_time, loop_start, outcome, turn_start_score,
                   winner, verdict, turns>>

\* Game.__init__ / TimedGameProxy.__init__
Construct ==
    /\ pc \in {"parsed", "call"}
    /\ LET k1 == create_player(argv[1])
           k2 == create_player(argv[2])
       IN  IF k1 = "error" \/ k2 = "error"
           THEN /\ pc' = "value_error"
                /\ UNCHANGED <<argv, kind, score, start_time>>
           ELSE /\ pc' = "ready"
                /\ kind' = [i \in 0..1 |-> IF i = 0 THEN k1 ELSE k2]
                /\ score' = [i \in 0..1 |-> 0]
                /\ start_time' = IF timed THEN now ELSE start_time
                /\ argv' = <<>>
    /\ current_player_index' = 0
    /\ UNCHANGED <<timed, turn_total, roll, decision, line, now, loop_start, outcome,
                   turn_start_score, winner, verdict, turns>>

\* game.start() is called
Start ==
    /\ pc = "ready"
    /\ pc' = "loop"
    /\ loop_start' = now
    /\ UNCHANGED <<argv, timed, kind, score, current_player_index, turn_total, roll,
                   decision, line, now, start_time, outcome, turn_start_score,
                   winner, verdict, turns>>

\* a slip: a human is asked before the first roll
BeginTurnAsk ==
    /\ pc = "loop"
    /\ ~(timed /\ time_is_up(now, start_time))
    /\ turn_total' = 0
    /\ roll' = 0
    /\ decision' = <<>>
    /\ line' = <<>>
    /\ outcome' = "none"
    /\ turn_start_score' = score[current_player_index]
    /\ turns' = Min(turns + 1, MaxTurns + 1)
    /\ pc' = IF kind[current_player_index] = "human" THEN "input" ELSE "roll"
    /\ UNCHANGED <<argv, timed, kind, score, current_player_index, now, start_time,
                   loop_start, winner, verdict>>

\* start: play_turn(current_player) is entered
BeginTurn ==
    /\ pc = "loop"
    /\ ~(timed /\ time_is_up(now, start_time))
    /\ turn_total' = 0
    /\ roll' = 0
    /\ decision' = <<>>
    /\ line' = <<>>
    /\ outcome' = "none"
    /\ turn_start_score' = score[current_player_index]
    /\ turns' = Min(turns + 1, MaxTurns + 1)
    /\ pc' = "roll"
    /\ UNCHANGED <<argv, timed, kind, score, current_player_index, now, start_time,
                   loop_start, winner, verdict>>

\* a slip: the win is announced and the loop goes on
AfterTurnNoBreak(sc) ==
    /\ winner' = check_winner(sc)
    /\ pc' = "loop"
    /\ current_player_index' = switch_turn(current_player_index)

\* start, after play_turn has returned: check_winner, then switch_turn
AfterTurn(sc) ==
    LET w == check_winner(sc)
    IN  IF w # NoName
        THEN /\ winner' = w
             /\ pc' = "won"
             /\ current_player_index' = current_player_index
        ELSE /\ winner' = winner
             /\ pc' = "loop"
             /\ current_player_index' = switch_turn(current_player_index)

\* a slip: the points of the turn are kept when the die shows 1
BustKeepsPoints ==
    /\ outcome' = "bust"
    /\ turn_total' = turn_total
    /\ score' = [score EXCEPT ![current_player_index] = @ + turn_total]
    /\ AfterTurn(score')

\* play_turn: the die shows 1, the turn ends with no points
Bust ==
    /\ outcome' = "bust"
    /\ UNCHANGED <<score, turn_total>>
    /\ AfterTurn(score)

\* a slip: the points go to players[0], whoever plays
HoldTurnFirstPlayer ==
    /\ score' = [score EXCEPT ![0] = add_to_score(score[0], turn_total')]
    /\ outcome' = "hold"
    /\ AfterTurn(score')

\* play_turn: decision == 'h', the turn total is added to the score and the turn ends
HoldTurn ==
    /\ score' = [score EXCEPT ![current_player_index] =
                     add_to_score(score[current_player_index], turn_total')]
    /\ outcome' = "hold"
    /\ AfterTurn(score')

\* play_turn: any other decision, the loop goes on to the next roll
Continue ==
    /\ pc' = "roll"
    /\ UNCHANGED <<score, outcome, winner, current_player_index>>

\* play_turn: one roll of the die and, for a computer player, its decision
RollDie ==
    /\ pc = "roll"
    /\ kind[current_player_index] = "human" => turn_total < MaxHumanTotal
    /\ \E r \in Faces :
        /\ roll' = r
        /\ IF r = 1
           THEN /\ Bust
                /\ decision' = decision
           ELSE /\ turn_total' = turn_total + r
                /\ IF kind[current_player_index] = "computer"
                   THEN /\ decision' = decide(turn_total', score[current_player_index])
                        /\ IF is_hold(decision') THEN HoldTurn ELSE Continue
                   ELSE /\ pc' = "input"
                        /\ decision' = <<>>
                        /\ UNCHANGED <<score, outcome, winner, current_player_index>>
    /\ line' = <<>>
    /\ UNCHANGED <<argv, timed, kind, now, start_time, loop_start, turn_start_score,
                   verdict, turns>>

\* play_turn: the human's answer to "Roll again (r) or Hold (h)? "
Input ==
    /\ pc = "input"
    /\ \E l \in Lines :
        /\ line' = l
        /\ decision' = read_decision(l)
        /\ turn_total' = turn_total
        /\ IF is_hold(decision') THEN HoldTurn ELSE Continue
    /\ roll' = 0
    /\ UNCHANGED <<argv, timed, kind, now, start_time, loop_start, turn_start_score,
                   verdict, turns>>

\* a slip: the deadline is tested inside the turn as well
TimeUpMidTurn ==
    /\ pc \in {"loop", "roll", "input"}
    /\ timed
    /\ time_is_up(now, start_time)
    /\ verdict' = declare_winner(score)
    /\ pc' = "timeup"
    /\ UNCHANGED <<argv, timed, kind, score, current_player_index, turn_total, roll,
                   decision, line, now, start_time, loop_start, outcome,
                   turn_start_score, winner, turns>>

\* TimedGameProxy.start: the deadline has passed at the top of the loop
TimeUp ==
    /\ pc = "loop"
    /\ timed
    /\ time_is_up(now, start_time)
    /\ verdict' = declare_winner(score)
    /\ pc' = "timeup"
    /\ UNCHANGED <<argv, timed, kind, score, current_player_index, turn_total, roll,
                   decision, line, now, start_time, loop_start, outcome,
                   turn_start_score, winner, turns>>

\* the wall clock advances: between the construction and start(), and while the
\* loop runs
Tick ==
    /\ timed
    /\ pc \in {"ready", "loop", "roll", "input"}
    /\ now + TickLen <= MaxNow
    /\ now' = now + TickLen
    /\ UNCHANGED <<pc, argv, timed, kind, score, current_player_index, turn_total,
                   roll, decision, line, start_time, loop_start, outcome,
                   turn_start_score, winner, verdict, turns>>

\* the exploration follows a game for MaxTurns turns
BoundedTurn ==
    /\ turns < MaxTurns
    /\ BeginTurn

Next ==
    \/ ParseArgs
    \/ Construct
    \/ Start
    \/ TimeUp
    \/ BoundedTurn
    \/ RollDie
    \/ Input
    \/ Tick

\* every way of running the program, each game followed for MaxTurns turns
Spec == Init /\ [][Next]_vars

----------------------------------------------------------------------------
(* Whole games of two computer players, Game.start to its end.             *)

InitGame == InitWith({"main", "call"}, {Computer}, {FALSE})

GameNext ==
    \/ ParseArgs
    \/ Construct
    \/ Start
    \/ BeginTurn
    \/ RollDie

SpecGame == InitGame /\ [][GameNext]_vars

\* the program keeps running, and the die shows a value other than 1 again and again
NotOne == RollDie /\ roll' # 1

SpecGameFair == SpecGame /\ WF_vars(GameNext) /\ SF_vars(NotOne)

----------------------------------------------------------------------------
(* Whole timed games of two computer players, TimedGameProxy.start to its  *)
(* end.                                                                    *)

InitTimedGame == InitWith({"main", "call"}, {Computer}, {TRUE})

TimedNext ==
    \/ ParseArgs
    \/ Construct
    \/ Start
    \/ TimeUp
    \/ BeginTurn
    \/ RollDie
    \/ Tick

SpecTimedGame == InitTimedGame /\ [][TimedNext]_vars

----------------------------------------------------------------------------
(* Whole games of two computer players, and start() called again on the    *)
(* same Game object once it has returned.                                  *)

\* game.start() is called on a game whose start() has returned
StartAgain ==
    /\ pc \in {"won", "timeup"}
    /\ \A i \in 0..1 : score[i] < MaxAgainScore
    /\ pc' = "loop"
    /\ loop_start' = now
    /\ UNCHANGED <<argv, timed, kind, score, current_player_index, turn_total, roll,
                   decision, line, now, start_time, outcome, turn_start_score,
                   winner, verdict, turns>>

AgainNext ==
    \/ ParseArgs
    \/ Construct
    \/ Start
    \/ BeginTurn
    \/ RollDie
    \/ StartAgain

SpecAgain == InitGame /\ [][AgainNext]_vars

----------------------------------------------------------------------------
(* ComputerPlayer.decide alone, on a range of turn totals and scores.      *)

InitDecide ==
    /\ pc = "decide"
    /\ argv = <<>>
    /\ timed = FALSE
    /\ kind = [i \in 0..1 |-> "computer"]
    /\ score \in {[i \in 0..1 |-> IF i = 0 THEN s ELSE 0] : s \in 0..MaxScoreArg}
    /\ current_player_index = 0
    /\ turn_total \in 0..MaxTotalArg
    /\ roll = 0
    /\ decision = <<>>
    /\ line = <<>>
    /\ now = 0
    /\ start_time = 0
    /\ loop_start = 0
    /\ outcome = "none"
    /\ turn_start_score = 0
    /\ winner = NoName
    /\ verdict = NoName
    /\ turns = 0

\* decision = player.decide(turn_total)
DecideCall ==
    /\ pc = "decide"
    /\ decision' = decide(turn_total, score[current_player_index])
    /\ pc' = "decided"
    /\ UNCHANGED <<argv, timed, kind, score, current_player_index, turn_total, roll,
                   line, now, start_time, loop_start, outcome, turn_start_score,
                   winner, verdict, turns>>

SpecDecide == InitDecide /\ [][DecideCall]_vars

----------------------------------------------------------------------------
(* Properties.                                                             *)

InTurn == pc \in {"roll", "input"}

\* a step of play_turn (the clock's steps leave pc and everything but now alone)
TurnStep == InTurn /\ now' = now

\* 60 seconds have passed since start() was called on a timed game
Expired == timed /\ now - loop_start >= 60

\* C1: when the die shows 1 the turn ends at once, with no decision asked and no
\* further roll, and the player's score is what it was when the turn began;
\* and no step of a turn that does not end it by hold changes a score.
C1_BustLeavesScore ==
    [][/\ (pc = "roll" /\ now' = now /\ roll' = 1) =>
            /\ pc' = "loop"
            /\ outcome' = "bust"
            /\ score' = score
            /\ score'[current_player_index] = turn_start_score
            /\ decision' = decision
            /\ line' = <<>>
       /\ (InTurn /\ outcome' # "hold") =>
            score[current_player_index] = turn_start_score]_vars

\* C1: a human who kept rolling saw 3, 4 and then 1 in the first turn: the turn
\* is over and the score is 0.
C1_Witness ==
    /\ pc = "loop"
    /\ turns = 1
    /\ kind[0] = "human"
    /\ roll = 1
    /\ turn_total = 7
    /\ outcome = "bust"
    /\ score[0] = 0

\* C2: the turn total starts at 0 and each roll other than 1 adds exactly its value,
\* nothing else changes it; the score changes only at a hold, where the player's
\* score grows by exactly the turn total and the other score stays.
C2_TurnTotalIsSum ==
    [][/\ (pc = "loop" /\ pc' = "roll") => turn_total' = 0
       /\ (pc = "roll" /\ now' = now /\ roll' # 1) => turn_total' = turn_total + roll'
       /\ (pc = "roll" /\ now' = now /\ roll' = 1) => turn_total' = turn_total
       /\ (pc = "input") => turn_total' = turn_total
       /\ (TurnStep /\ outcome' # "hold") => score' = score
       /\ (TurnStep /\ outcome' = "hold") =>
            /\ score'[current_player_index] =
                   score[current_player_index] + turn_total'
            /\ score'[1 - current_player_index] = score[1 - current_player_index]
       /\ (~InTurn /\ pc # "call" /\ pc # "parsed") => score' = score]_vars

\* C2: in its second turn Player 1, a human, held after the rolls 5 and 4 with a
\* score of 6 from its first turn.
C2_Witness ==
    /\ turns = 3
    /\ kind[0] = "human"
    /\ outcome = "hold"
    /\ turn_start_score = 6
    /\ turn_total = 9
    /\ score[0] = 15
    /\ current_player_index = 1

\* C3: decide answers hold exactly when the turn total has reached 25 or has
\* reached what the score lacks to 100, roll otherwise, and changes nothing.
C3_DecideThreshold ==
    /\ [](pc = "decided" =>
            /\ decision \in {<<"h">>, <<"r">>}
            /\ (decision = <<"h">>) <=>
                   (turn_total >= 25 \/ turn_total >= 100 - score[0]))
    /\ [][pc = "decide" =>
            /\ score' = score
            /\ turn_total' = turn_total
            /\ kind' = kind
            /\ current_player_index' = current_player_index]_vars

\* C3: decide(20) with a score of 85 answered hold.
C3_Witness ==
    /\ pc = "decided"
    /\ turn_total = 20
    /\ score[0] = 85
    /\ decision = <<"h">>

\* C4: a score of 100 or more exists exactly when the loop has stopped with a win
\* declared; the win is declared by the very step that ends the turn in which the
\* score of the player of that turn passes from below 100 to 100 or more, and no
\* step follows it.
C4_WinStopsLoop ==
    /\ [](pc \in {"ready", "loop", "roll", "won"} =>
            /\ (pc = "won") <=> (score[0] >= 100 \/ score[1] >= 100)
            /\ (winner # NoName) <=> (pc = "won"))
    /\ [][/\ pc # "won"
          /\ (pc' = "won") =>
               /\ pc = "roll"
               /\ outcome' = "hold"
               /\ score[current_player_index] < 100
               /\ score'[current_player_index] >= 100
               /\ turns' = turns]_vars

\* C4: Player 2 has won with exactly 100 points.
C4_Witness ==
    /\ pc = "won"
    /\ winner = "Player 2"
    /\ score[1] = 100
    /\ score[0] < 100

\* C5: the index is 0 or 1, every turn that ends without ending the game toggles
\* it, by bust as by hold, in the plain and in the timed game, and nothing else
\* changes it: the next turn is the other player's.
C5_IndexAlternates ==
    /\ [](current_player_index \in {0, 1})
    /\ [][/\ (InTurn /\ pc' = "loop") =>
               /\ current_player_index' = 1 - current_player_index
               /\ outcome' \in {"bust", "hold"}
          /\ (current_player_index' # current_player_index) => (InTurn /\ pc' = "loop")
          /\ (pc = "loop" /\ pc' = "roll") =>
               /\ current_player_index' = current_player_index
               /\ current_player_index = IF turns % 2 = 0 THEN 0 ELSE 1]_vars

\* C5: in a timed game the first turn ended by hold, the second by bust, and the
\* index is back at Player 1.
C5_Witness ==
    /\ timed
    /\ pc = "loop"
    /\ turns = 2
    /\ score[0] > 0
    /\ outcome = "bust"
    /\ current_player_index = 0

\* C6: at the top of the loop of a timed game with 60 seconds gone, the next step
\* of the program stops the loop with no turn begun and no score changed, and
\* names Player 1 when its score is strictly higher, Player 2 when its score is
\* strictly higher, a tie when the scores are equal.
C6_TimeUpVerdict ==
    /\ [][(pc = "loop" /\ Expired /\ now' = now) =>
               /\ pc' = "timeup"
               /\ turns' = turns
               /\ score' = score]_vars
    /\ [](pc = "timeup" =>
            /\ (score[0] > score[1]) => verdict = "Player 1"
            /\ (score[1] > score[0]) => verdict = "Player 2"
            /\ (score[0] = score[1]) => verdict = "tie")

\* C6: time was up with Player 2 strictly ahead of a Player 1 that had points.
C6_Witness ==
    /\ pc = "timeup"
    /\ score[0] > 0
    /\ score[1] > score[0]
    /\ verdict = "Player 2"

\* C7: the loop stops on time only from its top; a turn of a timed game, in
\* progress at whatever time, with the 60 seconds gone or not, goes on until its
\* bust or its hold, the hold adds the turn total to the score, and when time's up
\* is declared no turn is in progress.
C7_TurnNotInterrupted ==
    /\ [][/\ (pc' = "timeup") => (pc = "loop")
          /\ (InTurn /\ timed /\ now' = now) =>
               \/ pc' \in {"roll", "input"}
               \/ pc' \in {"loop", "won"} /\ outcome' \in {"bust", "hold"}
          /\ (InTurn /\ timed /\ outcome' = "hold") =>
               score'[current_player_index] = turn_start_score + turn_total']_vars
    /\ [](pc = "timeup" => (turns = 0 \/ outcome \in {"bust", "hold"}))

\* C7: the first turn began in time and ended by hold, its points are in the score,
\* and the next test of the clock stopped the loop.
C7_Witness ==
    /\ pc = "timeup"
    /\ loop_start = 0
    /\ now = 60
    /\ turns = 1
    /\ outcome = "hold"
    /\ turn_total >= 2
    /\ score[0] = turn_total
    /\ verdict = "Player 1"

\* the line is one h or H with nothing but whitespace around it
IsHoldLine(l) ==
    \E i \in 1..Len(l) :
        /\ l[i] \in {"h", "H"}
        /\ \A j \in (1..Len(l)) \ {i} : l[j] \in {" ", "\t", "\n", "\r"}

\* C8: the line a human types ends the turn by hold exactly when it is one h, in
\* either case, with only whitespace around it; any other line leads to the next
\* roll with the scores and the turn total as they were, never to an error.
C8_HoldToken ==
    [][(pc = "input" /\ now' = now) =>
            IF IsHoldLine(line')
            THEN /\ outcome' = "hold"
                 /\ pc' \in {"loop", "won"}
            ELSE /\ pc' = "roll"
                 /\ outcome' = "none"
                 /\ score' = score
                 /\ turn_total' = turn_total]_vars

\* C8: a human typed "hold" and the turn goes on.
C8_Witness ==
    /\ pc = "roll"
    /\ line = <<"h", "o", "l", "d">>
    /\ turn_total > 0
    /\ outcome = "none"

\* t is the word w, whatever the case of its letters
SameWord(t, w) ==
    /\ Len(t) = Len(w)
    /\ \A i \in 1..Len(w) :
        \E k \in 1..26 : w[i] = LowerCase[k] /\ t[i] \in {LowerCase[k], UpperCase[k]}

ValidType(t) ==
    \/ SameWord(t, <<"h", "u", "m", "a", "n">>)
    \/ SameWord(t, <<"c", "o", "m", "p", "u", "t", "e", "r">>)

\* C9: the construction of a Game or a TimedGameProxy with a type for player 1 or
\* player 2 that is neither human nor computer ends in the error, where no player
\* exists, no turn was begun and no die rolled, and nothing follows it.
C9_InvalidTypeFails ==
    /\ [][/\ (pc \in {"parsed", "call"} /\ ~(ValidType(argv[1]) /\ ValidType(argv[2])))
               => pc' = "value_error"
          /\ pc # "value_error"]_vars
    /\ [](pc = "value_error" =>
            /\ ~(ValidType(argv[1]) /\ ValidType(argv[2]))
            /\ score = <<>>
            /\ kind = <<>>
            /\ turns = 0
            /\ roll = 0)

\* C9: a TimedGameProxy given a valid type for player 1 and an invalid one for
\* player 2 failed.
C9_Witness ==
    /\ pc = "value_error"
    /\ timed
    /\ ValidType(argv[1])
    /\ ~ValidType(argv[2])

\* C10: a run of the program whose two player types are human or computer in any
\* letter case is not turned down by the parsing of its arguments.
C10_AnyCaseAccepted ==
    pc = "usage_error" => ~(ValidType(argv[1]) /\ ValidType(argv[2]))

\* C11: every call of start(), the first one and one on a game already played,
\* enters the loop with both scores 0 and the index 0.
C11_StartFromZero ==
    [][(pc \in {"ready", "won", "timeup"} /\ pc' = "loop") =>
            /\ score' = [i \in 0..1 |-> 0]
            /\ current_player_index' = 0]_vars

\* C12: a game of two computer players, with a die that does not show 1 forever,
\* comes to a declared winner.
C12_GameEnds == <>(pc = "won" /\ winner # NoName)

\* C12, amended: a game of two computer players comes to a declared winner unless
\* turns end on a 1 again and again, forever.
C12_EndsUnlessBusts ==
    \/ <>(pc = "won" /\ winner # NoName)
    \/ []<>(pc = "loop" /\ outcome = "bust")

\* C12: Player 1 has won a game in which Player 2 lost every turn to a 1.
C12_Witness ==
    /\ pc = "won"
    /\ winner = "Player 1"
    /\ outcome = "hold"
    /\ score[1] = 0

\* C13: when the loop of a timed game stops on time, 60 seconds or more have
\* passed since start() was called, whatever the time between the construction
\* and that call.
C13_DeadlineFromStart == pc = "timeup" => now - loop_start >= 60

\* the player of the turn is a computer
ComputerTurn == pc = "roll" /\ kind[current_player_index] = "computer"

\* C14: in a computer's turn a roll other than 1 ends the turn by hold exactly when
\* the turn total has with it reached 25 or what the score lacks to 100, the score
\* then grows by exactly that turn total, and while the turn goes on the turn
\* total is below both.
C14_HoldAtFirstCrossing ==
    /\ [][(ComputerTurn /\ roll' # 1) =>
               /\ (outcome' = "hold") <=>
                      (turn_total' >= 25 \/
                       turn_total' >= 100 - score[current_player_index])
               /\ (outcome' = "hold") =>
                      score'[current_player_index] =
                          score[current_player_index] + turn_total'
               /\ (outcome' # "hold") => (pc' = "roll" /\ score' = score)]_vars
    /\ [](ComputerTurn =>
            /\ turn_total < 25
            /\ turn_total < 100 - score[current_player_index])

\* C14: a computer with no points held its first turn at 30, after 24 and a 6.
C14_Witness ==
    /\ turns = 1
    /\ outcome = "hold"
    /\ roll = 6
    /\ turn_total = 30
    /\ score[0] = 30
    /\ current_player_index = 1

\* C15: a turn starts at the roll with a turn total of 0; a decision is taken, by a
\* human or a computer, only with a roll other than 1 on the table; a hold commits
\* 2 points or more.
C15_RollBeforeDecision ==
    /\ [](pc = "input" => (roll \in 2..6 /\ turn_total >= roll))
    /\ [][/\ (pc = "loop" /\ pc' \notin {"loop", "timeup"}) =>
               /\ pc' = "roll"
               /\ turn_total' = 0
               /\ decision' = <<>>
          /\ (decision' # decision /\ decision' # <<>>) =>
               \/ pc = "input" /\ roll \in 2..6
               \/ pc = "roll" /\ roll' \in 2..6
          /\ (outcome = "none" /\ outcome' = "hold") =>
               /\ turn_total' >= 2
               /\ score'[current_player_index] >= score[current_player_index] + 2]_vars

\* C15: a human held after a single roll of 2.
C15_Witness ==
    /\ turns = 1
    /\ kind[0] = "human"
    /\ outcome = "hold"
    /\ turn_total = 2
    /\ score[0] = 2

\* C16: no step lowers a score or changes the score of the player whose turn it is
\* not, scores change only inside a turn, and no score is negative.
C16_OnlyActiveScoreGrows ==
    /\ [](score # <<>> => \A i \in 0..1 : score[i] >= 0)
    /\ [][score # <<>> =>
               /\ \A i \in 0..1 : score'[i] >= score[i]
               /\ score'[1 - current_player_index] = score[1 - current_player_index]
               /\ (score' # score) => InTurn]_vars

\* C16: both players have held a turn, Player 2 last.
C16_Witness ==
    /\ pc = "loop"
    /\ turns = 2
    /\ outcome = "hold"
    /\ score[0] > 0
    /\ score[1] > 0
    /\ current_player_index = 0

\* C17: never both scores are 100 or more, and the winner check_winner names is the
\* player of the turn that just ended, the one with the 100 points.
C17_WinnerJustPlayed ==
    /\ ~(score # <<>> /\ score[0] >= 100 /\ score[1] >= 100)
    /\ (pc = "won") =>
            /\ winner = PlayerName[current_player_index + 1]
            /\ score[current_player_index] >= 100
            /\ score[1 - current_player_index] < 100
            /\ outcome = "hold"

\* C17: Player 2 won a close game, Player 1 standing at 90 or more.
C17_Witness ==
    /\ pc = "won"
    /\ winner = "Player 2"
    /\ current_player_index = 1
    /\ score[0] >= 90

\* C18: in a game of computers the turn total never exceeds 30 and no score
\* exceeds 105.
C18_ComputerBounds ==
    /\ turn_total <= 30
    /\ score # <<>> => \A i \in 0..1 : score[i] <= 105

\* C18: a computer at 75 held a turn total of 30 and won with 105.
C18_Witness ==
    /\ pc = "won"
    /\ turn_start_score = 75
    /\ turn_total = 30
    /\ score[current_player_index] = 105

\* C19: a timed game makes one announcement and then stops: a win is announced
\* only with no time's up declared, also when the winning turn ended with the 60
\* seconds gone, and time's up is declared only with no win announced and both
\* scores below 100.
C19_OneAnnouncement ==
    /\ [](~(winner # NoName /\ verdict # NoName))
    /\ [](pc = "won" => (winner # NoName /\ verdict = NoName))
    /\ [](pc = "timeup" =>
            /\ verdict # NoName
            /\ winner = NoName
            /\ score[0] < 100
            /\ score[1] < 100)
    /\ [][/\ pc \notin {"won", "timeup"}
          /\ (winner' # winner) => (winner = NoName /\ pc' = "won")
          /\ (verdict' # verdict) => (verdict = NoName /\ pc' = "timeup")]_vars

\* C19: a timed game was won by a turn that ended with the 60 seconds gone.
C19_Witness ==
    /\ timed
    /\ pc = "won"
    /\ now - start_time >= 60
    /\ now - loop_start >= 60
    /\ verdict = NoName

====
